---- MODULE Spec2Model ----
(***************************************************************************)
(* The workflow orchestrator of the analysis wizard page (AnalysisPage,    *)
(* src/unnamed/part_003): session identity, init-script retrieval, the     *)
(* data-collection phase with its repeating poll timer, the training       *)
(* trigger and the delayed prediction fetch.                               *)
(*                                                                         *)
(* React state is modelled as the variables of the component.  A handler   *)
(* is a closure of the render in which it was invoked: the state values it *)
(* reads after an await are the ones of that render, so every asynchronous *)
(* call keeps the values it captured in its own record.  pollingRef is a   *)
(* ref, shared by all closures.  A state setter called after the view has  *)
(* been torn down changes nothing.                                         *)
(***************************************************************************)
EXTENDS Integers, Sequences, FiniteSets, TLC

(***************************************************************************)
(* Time.  Instants are milliseconds, as Date.now() and Date.parse give     *)
(* them; the clock moves in steps of one poll interval.  The instants of   *)
(* the model stand for present-day epoch instants (13 digits).             *)
(***************************************************************************)
PollInterval == 15 * 1000
PredictDelay == 15 * 1000
ClockStep == PollInterval
StartTime == 2 * ClockStep
\* bounds of the model
MaxSteps == 1
MaxSubmits == 2
MaxPredicts == 2
MaxEntries == 2
MaxNow == StartTime + MaxSteps * ClockStep

(***************************************************************************)
(* JavaScript values, as far as the timestamp handling needs them.         *)
(*   undefined, null, NaN, a number, and four kinds of string: an ISO      *)
(*   date string denoting instant v, a string of digits denoting the       *)
(*   number v, the empty string, and any other text.                       *)
(***************************************************************************)
JsVal(k, v) == [k |-> k, v |-> v]
Undefined == JsVal("undefined", 0)
Null == JsVal("null", 0)
NaN == JsVal("nan", 0)
Num(n) == JsVal("num", n)
IsoStr(t) == JsVal("iso", t)
DigitStr(n) == JsVal("digits", n)
EmptyStr == JsVal("empty", 0)
TextStr == JsVal("text", 0)

\* ToBoolean, as !x, x || y and x && y apply it
Truthy(x) ==
  CASE x.k = "undefined" -> FALSE
    [] x.k = "null" -> FALSE
    [] x.k = "nan" -> FALSE
    [] x.k = "num" -> x.v # 0
    [] x.k = "empty" -> FALSE
    [] OTHER -> TRUE

\* x || y
JsOr(x, y) == IF Truthy(x) THEN x ELSE y

\* Date.parse(x): the instant of an ISO date string, NaN for anything else.
\* A number is converted to its digits first, and the 13 digits of an epoch
\* instant are no date.
DateParse(x) == IF x.k = "iso" THEN Num(x.v) ELSE NaN

\* Number(x)
ToNumber(x) ==
  CASE x.k = "num" -> x
    [] x.k = "digits" -> Num(x.v)
    [] x.k = "empty" -> Num(0)
    [] x.k = "null" -> Num(0)
    [] OTHER -> NaN

\* the callback of entries.filter in singleIteration; collectionStartTs is
\* the value the enclosing closure holds
KeepCollected(e, startTs) ==
  IF ~Truthy(startTs) THEN TRUE
  ELSE LET ts == JsOr(JsOr(JsOr(JsOr(e.timestamp, e.time), e.created_at),
                           e.createdAt), Null)
       IN IF ~Truthy(ts) THEN TRUE
          ELSE LET parsed == JsOr(JsOr(DateParse(ts), ToNumber(ts)), Null)
               IN Truthy(parsed) /\ parsed.v >= startTs.v

\* the callback of arr.filter in the delayed prediction fetch; startTs is the
\* local constant of the requestPredictionMode call
KeepPrediction(e, startTs) ==
  IF ~Truthy(startTs) THEN TRUE
  ELSE LET ts == JsOr(JsOr(JsOr(JsOr(e.timestamp, e.time), e.created_at),
                           e.createdAt), Null)
       IN IF ~Truthy(ts) THEN TRUE
          ELSE LET parsed == JsOr(JsOr(DateParse(ts), ToNumber(ts)), Null)
               IN Truthy(parsed) /\ parsed.v >= startTs.v

FilterCollected(entries, startTs) ==
  SelectSeq(entries, LAMBDA e : KeepCollected(e, startTs))

FilterPrediction(arr, startTs) ==
  SelectSeq(arr, LAMBDA e : KeepPrediction(e, startTs))

(***************************************************************************)
(* Records of the backend: only the four timestamp aliases matter.         *)
(***************************************************************************)
Rec(a, b, c, d) == [timestamp |-> a, time |-> b, created_at |-> c, createdAt |-> d]
Stamped(v) == Rec(v, Undefined, Undefined, Undefined)
Unstamped == Stamped(Undefined)

\* instants a backend record may name: before, at and after the instants at
\* which a session can start
Instants == {StartTime - ClockStep + i * ClockStep : i \in 0 .. MaxSteps + 1}

\* the values a timestamp field may hold
StampValues ==
  {Undefined, Null, Num(0), EmptyStr, TextStr, IsoStr(0)}
    \cup {Num(t) : t \in Instants}
    \cup {IsoStr(t) : t \in Instants}
    \cup {DigitStr(t) : t \in Instants}

\* the records the polled endpoints answer with in the workflow
OldInstant == StartTime - ClockStep
MidInstant == StartTime + ClockStep
PollRecords ==
  {Unstamped, Stamped(IsoStr(OldInstant)), Stamped(IsoStr(MidInstant))}

\* a JSON body: one record, or an array of at most two
BodiesOf(records) ==
  {[array |-> FALSE, item |-> r, items |-> <<>>] : r \in records}
    \cup {[array |-> TRUE, item |-> Unstamped, items |-> <<>>]}
    \cup {[array |-> TRUE, item |-> Unstamped, items |-> <<r, s>>] :
            r \in records, s \in records}
Bodies == BodiesOf(PollRecords)

\* Array.isArray(x) ? x : [x]
AsArray(body) == IF body.array THEN body.items ELSE <<body.item>>

\* how a fetch ends: a 2xx response, another status, or a rejected promise
\* (transport error, or a body that does not parse)
Outcomes == {"ok", "http", "throw"}
Failure(o) == [outcome |-> o, body |-> [array |-> TRUE, item |-> Unstamped, items |-> <<>>]]
GetdataOf(bodies) ==
  {[outcome |-> "ok", body |-> b] : b \in bodies} \cup {Failure("http"), Failure("throw")}
GetdataResponses == GetdataOf(Bodies)

\* what GET /picron/{id} may carry in status and status_code
StatusValues == {Undefined, Null, Num(0), Num(1), DigitStr(0), EmptyStr, TextStr}
StatusBodies ==
  {[status |-> a, status_code |-> b] : a \in StatusValues, b \in StatusValues} \cup {Null}
\* the ones answered in the workflow
PollStatusBodies ==
  {[status |-> Num(0), status_code |-> Undefined],
   [status |-> Num(1), status_code |-> Undefined],
   [status |-> Undefined, status_code |-> Num(0)],
   [status |-> Undefined, status_code |-> Undefined]}
StatusResponses ==
  {[outcome |-> "ok", pdata |-> p] : p \in PollStatusBodies}
    \cup {[outcome |-> o, pdata |-> [status |-> Undefined, status_code |-> Undefined]] :
             o \in {"http", "throw"}}

\* what a failed fetch tells: the status and body of a non-2xx response, or
\* the message of the error a rejected promise carries
HttpFailures == [outcome : {"http"}, status : {"500"}, text : {"", "bad csv"}]
Rejections == [outcome : {"throw"}, status : {""}, text : {"Failed to fetch"}]
PostResponses ==
  [outcome : {"ok"}, status : {"200"}, text : {""}] \cup HttpFailures \cup Rejections

PredictRecords ==
  PollRecords \cup {Stamped(Num(0)), Stamped(TextStr), Stamped(DigitStr(MidInstant)),
                    Rec(Undefined, IsoStr(OldInstant), Undefined, Undefined)}
PredictOf(bodies) ==
  {[outcome |-> "ok", status |-> "200", text |-> "", body |-> b] : b \in bodies}
    \cup {[outcome |-> f.outcome, status |-> f.status, text |-> f.text,
           body |-> [array |-> TRUE, item |-> Unstamped, items |-> <<>>]] :
            f \in HttpFailures \cup Rejections}
PredictResponses == PredictOf(BodiesOf(PredictRecords))

\* the backend the two workflows are run against, and the one the whole page
\* is run against: fewer different records, the same kinds of answer
RichBackend ==
  [getdata |-> GetdataResponses, predict |-> PredictResponses, status |-> StatusResponses]
OneBody == {[array |-> FALSE, item |-> Stamped(IsoStr(OldInstant)), items |-> <<>>]}
PlainBackend ==
  [getdata |-> GetdataOf(OneBody), predict |-> PredictOf(OneBody), status |-> StatusResponses]

\* JSON.stringify of a number: NaN is written as null
JsonOf(x) == IF x.k = "nan" THEN Null ELSE x

\* JSON.stringify(payload), as the backend reads it
JsonStringify(payload) ==
  [form |-> [f \in DOMAIN payload.form |-> JsonOf(payload.form[f])],
   status |-> payload.status,
   factory |-> payload.factory]

MutFalsyCoalesce(x, y) == IF Truthy(x) THEN x ELSE y

\* x ?? y
Nullish(x) == x.k = "undefined" \/ x.k = "null"
JsCoalesce(x, y) == IF Nullish(x) THEN y ELSE x

(***************************************************************************)
(* State                                                                   *)
(***************************************************************************)
VARIABLES
  view,                    \* "initial", "mounted", "torndown"
  now,                     \* Date.now()
  localStorage,            \* the two persisted names
  factoryName, medicineName, factoryMedicineId,
  scriptText, isFetchingScript,
  scriptCalls,             \* fetchShellScript calls awaiting their response
  lastDownload,            \* the latest artifact downloadScript produced (name "": none)
  collectionForm,
  isSubmittingCollection, collectionStartTs, collectedEntries,
  pollingRef,              \* pollingRef.current: 0 is null, else a timer id
  subs,                    \* the submitCollection calls made, in order; started, sawZero,
                           \* failedAt (the cycles started when a fetch last failed) and
                           \* lenBefore (the entries held when the call began) are history
  timers,                  \* the active interval timers
  cycles,                  \* the singleIteration runs awaiting a response
  csvFile, isTraining, trainMessage,
  trainCalls,              \* startModelTraining calls awaiting their response
  isRequestingPrediction, predictionStartTs, predictions, predictionMessage,
  predCalls,               \* the requestPredictionMode calls made, in order
  predBy,                  \* history: the call whose fetch assigned predictions (0: none)
  lastAlert,                  \* the message of the latest alert() ("": none yet)
  clicks,                  \* user intents still to come
  entryBy,                 \* history: the cycle (submission, number) that appended each entry
  keptCount,               \* history: records that survived a filter since the last reset
  doneSeen,                \* history: a status poll answered 0 since the last successful submit
  probe,                   \* the latest application of a filter callback to one record
  backend                  \* the answers the backend has for GET /getdata, GET /predict
                           \* and GET /picron

idVars == <<localStorage, factoryName, medicineName, factoryMedicineId>>
scriptVars == <<scriptText, isFetchingScript, scriptCalls, lastDownload>>
collVars == <<isSubmittingCollection, collectionStartTs, collectedEntries,
              pollingRef, subs, timers, cycles, entryBy, keptCount, doneSeen>>
trainVars == <<csvFile, isTraining, trainMessage, trainCalls>>
predVars == <<isRequestingPrediction, predictionStartTs, predictions,
              predictionMessage, predCalls, predBy>>
vars == <<view, now, idVars, scriptVars, collectionForm, collVars, trainVars,
          predVars, lastAlert, clicks, probe, backend>>

Mounted == view = "mounted"

MutDropUpdate(cur, new) == cur

MutLateUpdate(cur, new) == IF Mounted THEN cur ELSE new

\* a state setter: without effect once the component is unmounted
SetState(cur, new) == IF Mounted THEN new ELSE cur

FormFields == {"taste_sweet", "taste_salty", "taste_bitter", "taste_sour",
               "taste_umami", "quality", "dilution"}

\* useState initial values (lines 6-30); nothing is in flight
InitState(stored, budget, answers) ==
  /\ view = "initial"
  /\ now = StartTime
  /\ localStorage = stored
  /\ factoryName = "" /\ medicineName = "" /\ factoryMedicineId = ""
  /\ scriptText = "" /\ isFetchingScript = FALSE /\ scriptCalls = {}
  /\ lastDownload = [name |-> "", text |-> ""]
  /\ collectionForm = [f \in FormFields |-> Num(0)]
  /\ isSubmittingCollection = FALSE
  /\ collectionStartTs = Null
  /\ collectedEntries = <<>>
  /\ pollingRef = 0
  /\ subs = <<>> /\ timers = {} /\ cycles = {}
  /\ csvFile = "" /\ isTraining = FALSE /\ trainMessage = "" /\ trainCalls = {}
  /\ isRequestingPrediction = FALSE
  /\ predictionStartTs = Null
  /\ predictions = <<>>
  /\ predictionMessage = ""
  /\ predCalls = <<>> /\ predBy = 0
  /\ lastAlert = ""
  /\ clicks = budget
  /\ entryBy = <<>> /\ keptCount = 0 /\ doneSeen = FALSE
  /\ probe = [site |-> "none", e |-> Unstamped, startTs |-> Null, kept |-> TRUE]
  /\ backend = answers

\* what localStorage may hold under the two keys ("" when the key is absent)
StoredNames == [factoryName : {"", "ACME"}, medicineName : {"", "Tonic1"}]

(***************************************************************************)
(* Session identity                                                        *)
(***************************************************************************)
MutJoinNoSeparator(f, m, id) == IF f # "" /\ m # "" THEN f \o m ELSE id

\* the effect on [factoryName, medicineName]
IdentityEffect(f, m, id) == IF f # "" /\ m # "" THEN f \o "_" \o m ELSE id

\* the mount effect, then the identity effect on the names it set
Mount ==
  /\ view = "initial"
  /\ view' = "mounted"
  /\ LET f == localStorage.factoryName
         m == localStorage.medicineName
         id == IF f # "" /\ m # "" THEN f \o "_" \o m ELSE factoryMedicineId
     IN /\ factoryName' = f
        /\ medicineName' = m
        /\ factoryMedicineId' = IdentityEffect(f, m, id)
  /\ UNCHANGED <<probe, backend, now, localStorage, scriptVars, collectionForm, collVars,
                 trainVars, predVars, lastAlert, clicks>>

MutKeepTimers(ts, id) == ts

MutClearOthers(ts, id) == {t \in ts : t.id = id}

\* clearInterval(id)
ClearInterval(ts, id) == {t \in ts : t.id # id}

\* the cleanup of the unmount effect
Unmount ==
  /\ Mounted
  /\ view' = "torndown"
  /\ IF pollingRef # 0
       THEN timers' = ClearInterval(timers, pollingRef) /\ pollingRef' = 0
       ELSE UNCHANGED <<timers, pollingRef>>
  /\ UNCHANGED <<probe, backend, now, idVars, scriptVars, collectionForm, isSubmittingCollection,
                 collectionStartTs, collectedEntries, subs, cycles, entryBy,
                 keptCount, doneSeen, trainVars, predVars, lastAlert, clicks>>

\* time passes
Advance ==
  /\ \/ now < MaxNow
     \/ \E n \in 1 .. Len(predCalls) : predCalls[n].pc = "wait" /\ predCalls[n].due > now
  /\ now' = now + ClockStep
  /\ UNCHANGED <<probe, backend, view, idVars, scriptVars, collectionForm, collVars, trainVars,
                 predVars, lastAlert, clicks>>

(***************************************************************************)
(* Data collection                                                         *)
(***************************************************************************)
MutNoAlert == ""

IdAlert == "Please set factory and medicine name on Home page first."
SubmitAlert == "Error submitting data collection. See console for details."

MutStatusFirst == "picron"

\* the fetch singleIteration awaits first
FirstFetch == "getdata"

\* submitCollection up to its await.  The button is disabled while
\* isSubmittingCollection; the identity precondition is the handler's own.
SubmitCollection ==
  /\ Mounted
  /\ ~isSubmittingCollection
  /\ IF factoryMedicineId = ""
       THEN /\ lastAlert' = IdAlert
            /\ UNCHANGED <<collVars, clicks>>
       ELSE /\ clicks > 0
            /\ clicks' = clicks - 1
            /\ isSubmittingCollection' = TRUE
            /\ collectedEntries' = <<>>
            /\ collectionStartTs' = Num(now)
            /\ subs' = Append(subs,
                 [pc |-> "post",
                  startTs |-> now,
                  closureStartTs |-> collectionStartTs,
                  id |-> factoryMedicineId,
                  payload |-> [form |-> collectionForm, status |-> 1,
                               factory |-> factoryName],
                  body |-> JsonStringify([form |-> collectionForm, status |-> 1,
                                          factory |-> factoryName]),
                  started |-> 0,
                  sawZero |-> FALSE,
                  failedAt |-> 0,
                  lenBefore |-> Len(collectedEntries)])
            /\ entryBy' = <<>>
            /\ keptCount' = 0
            /\ UNCHANGED <<pollingRef, timers, cycles, doneSeen, lastAlert>>
  /\ UNCHANGED <<probe, backend, view, now, idVars, scriptVars, collectionForm, trainVars, predVars>>

\* the response to the POST of submission s: on success pollForDataAndStatus
\* (clear the previous timer, run singleIteration up to its first await, set
\* the new timer), else the alert; finally the flag
SubmitResponse(s, outcome) ==
  /\ s \in 1 .. Len(subs)
  /\ subs[s].pc = "post"
  /\ IF outcome = "ok"
       THEN /\ subs' = [subs EXCEPT ![s].pc = "polling", ![s].started = 1]
            /\ cycles' = cycles \cup {[sub |-> s, n |-> 1, pc |-> FirstFetch]}
            /\ timers' = ClearInterval(timers, pollingRef)
                           \cup {[id |-> s, due |-> now + PollInterval]}
            /\ pollingRef' = s
            /\ doneSeen' = FALSE
            /\ UNCHANGED lastAlert
       ELSE /\ subs' = [subs EXCEPT ![s].pc = "failed"]
            /\ lastAlert' = SubmitAlert
            /\ UNCHANGED <<cycles, timers, pollingRef, doneSeen>>
  /\ isSubmittingCollection' = SetState(isSubmittingCollection, FALSE)
  /\ UNCHANGED <<probe, backend, view, now, idVars, scriptVars, collectionForm, collectionStartTs,
                 collectedEntries, entryBy, keptCount, trainVars, predVars, clicks>>

MutTickBeforeDue(t) ==
  /\ t \in timers
  /\ timers' = (timers \ {t}) \cup {[t EXCEPT !.due = @ + PollInterval]}
  /\ subs' = [subs EXCEPT ![t.id].started = @ + 1]
  /\ subs[t.id].started <= MaxSteps
  /\ cycles' = cycles \cup {[sub |-> t.id, n |-> subs[t.id].started + 1, pc |-> FirstFetch]}
  /\ UNCHANGED <<probe, backend, view, now, idVars, scriptVars, collectionForm,
                 isSubmittingCollection, collectionStartTs, collectedEntries,
                 pollingRef, entryBy, keptCount, doneSeen, trainVars, predVars,
                 lastAlert, clicks>>

\* an interval timer fires: singleIteration up to its first await
TimerTick(t) ==
  /\ t \in timers
  /\ now >= t.due
  /\ timers' = (timers \ {t}) \cup {[t EXCEPT !.due = @ + PollInterval]}
  /\ subs' = [subs EXCEPT ![t.id].started = @ + 1]
  /\ cycles' = cycles \cup {[sub |-> t.id, n |-> subs[t.id].started + 1, pc |-> FirstFetch]}
  /\ UNCHANGED <<probe, backend, view, now, idVars, scriptVars, collectionForm,
                 isSubmittingCollection, collectionStartTs, collectedEntries,
                 pollingRef, entryBy, keptCount, doneSeen, trainVars, predVars,
                 lastAlert, clicks>>

MutOverwriteEntries(prev, filtered) == filtered

\* setCollectedEntries((prev) => [...prev, ...filtered])
AppendEntries(prev, filtered) == prev \o filtered

\* singleIteration from the answer to GET /getdata up to the await of
\* GET /picron
GetdataResponse(c, r) ==
  /\ c \in cycles
  /\ c.pc = "getdata"
  /\ LET filtered == IF r.outcome = "ok"
                       THEN FilterCollected(AsArray(r.body), subs[c.sub].closureStartTs)
                       ELSE <<>>
         appended == Mounted /\ Len(filtered) > 0
     IN /\ Len(collectedEntries) + Len(filtered) <= MaxEntries
        /\ collectedEntries' = IF appended
                                 THEN AppendEntries(collectedEntries, filtered)
                                 ELSE collectedEntries
        /\ entryBy' = IF appended
                         THEN entryBy \o [i \in 1 .. Len(filtered) |-> [sub |-> c.sub, n |-> c.n]]
                         ELSE entryBy
        /\ keptCount' = IF Mounted THEN keptCount + Len(filtered) ELSE keptCount
  /\ cycles' = (cycles \ {c}) \cup {[c EXCEPT !.pc = "picron"]}
  /\ subs' = IF r.outcome # "ok"
               THEN [subs EXCEPT ![c.sub].failedAt = subs[c.sub].started]
               ELSE subs
  /\ UNCHANGED <<probe, backend, view, now, idVars, scriptVars, collectionForm,
                 isSubmittingCollection, collectionStartTs, pollingRef,
                 timers, doneSeen, trainVars, predVars, lastAlert, clicks>>

\* status !== null && Number(status) === 0, where status is
\* pdata && (pdata.status ?? pdata.status_code ?? null) for the parsed body
StatusIsDone(pdata) ==
  LET status == IF pdata = Null
                  THEN Null
                  ELSE JsCoalesce(JsCoalesce(pdata.status, pdata.status_code), Null)
  IN status.k # "null" /\ ToNumber(status) = Num(0)

MutDoneOnFailure(r) == r.outcome # "ok" \/ StatusIsDone(r.pdata)

\* pRes.ok and the status check on its body
PollIsDone(r) == r.outcome = "ok" /\ StatusIsDone(r.pdata)

\* singleIteration from the answer to GET /picron to its end
PicronResponse(c, r) ==
  /\ c \in cycles
  /\ c.pc = "picron"
  /\ cycles' = cycles \ {c}
  /\ IF PollIsDone(r)
       THEN /\ timers' = ClearInterval(timers, pollingRef)
            /\ pollingRef' = 0
            /\ subs' = [subs EXCEPT ![c.sub].sawZero = TRUE]
            /\ doneSeen' = TRUE
       ELSE /\ subs' = IF r.outcome # "ok"
                         THEN [subs EXCEPT ![c.sub].failedAt = subs[c.sub].started]
                         ELSE subs
            /\ UNCHANGED <<timers, pollingRef, doneSeen>>
  /\ UNCHANGED <<probe, backend, view, now, idVars, scriptVars, collectionForm,
                 isSubmittingCollection, collectionStartTs, collectedEntries,
                 entryBy, keptCount, trainVars, predVars, lastAlert, clicks>>

NextCollect ==
  \/ Mount
  \/ Unmount
  \/ Advance
  \/ SubmitCollection
  \/ \E s \in 1 .. Len(subs), o \in Outcomes : SubmitResponse(s, o)
  \/ \E t \in timers : TimerTick(t)
  \/ \E c \in cycles, r \in backend.getdata : GetdataResponse(c, r)
  \/ \E c \in cycles, r \in backend.status : PicronResponse(c, r)

InitCollect ==
  \E stored \in StoredNames :
    InitState(stored, MaxSubmits, RichBackend)

SpecCollect == InitCollect /\ [][NextCollect]_vars

\* the answers with status 0
SettledStatus == {r \in StatusResponses : PollIsDone(r)}

\* the device has finished: from now on every status poll is answered ok
\* with status 0
BackendSettles ==
  /\ backend.status # SettledStatus
  /\ backend' = [backend EXCEPT !.status = SettledStatus]
  /\ UNCHANGED <<probe, view, now, idVars, scriptVars, collectionForm, collVars,
                 trainVars, predVars, lastAlert, clicks>>

NextCollectFair ==
  \/ NextCollect
  \/ BackendSettles

\* time passes, the event loop runs an interval timer that is due, and a
\* fetch under way is answered
FairCollect ==
  /\ WF_vars(Advance)
  /\ \A s \in 1 .. MaxSubmits :
       /\ WF_vars(\E t \in timers : t.id = s /\ TimerTick(t))
       /\ WF_vars(\E c \in cycles, r \in backend.getdata :
                    c.sub = s /\ GetdataResponse(c, r))
       /\ WF_vars(\E c \in cycles, r \in backend.status :
                    c.sub = s /\ PicronResponse(c, r))

\* bound of the model: the submissions of a behaviour checked for progress
MaxFairSubmits == 2

InitCollectFair ==
  \E stored \in StoredNames :
    InitState(stored, MaxFairSubmits, PlainBackend)

SpecCollectFair == InitCollectFair /\ [][NextCollectFair]_vars /\ FairCollect

(***************************************************************************)
(* Prediction                                                              *)
(***************************************************************************)
MutNoStatus(prefix, r, sep) == prefix \o r.text

MutNoBody(prefix, r, sep) == IF r.outcome = "http" THEN prefix \o r.status ELSE r.text

\* err.message of the error a handler catches, given the prefix it puts
\* before the status of a non-2xx response
ErrMessage(prefix, r, sep) ==
  IF r.outcome = "http" THEN prefix \o r.status \o sep \o r.text ELSE r.text

MutDueAtOnce(t) == t

MutSilent(r) == ""

\* the message the catch block of requestPredictionMode sets
PredictPostError(r) ==
  "Error requesting prediction mode: "
    \o ErrMessage("Failed to request prediction mode: ", r, " ")

\* the message the catch block of the delayed fetch sets
PredictGetError(r) ==
  "Error fetching prediction: " \o ErrMessage("Failed to fetch prediction: ", r, " ")

\* setTimeout(..., 15 * 1000) called at instant t
PredictDueAt(t) == t + PredictDelay

\* requestPredictionMode up to its await (no control of the page invokes it:
\* nothing disables it)
RequestPredictionMode ==
  /\ Mounted
  /\ IF factoryMedicineId = ""
       THEN /\ lastAlert' = IdAlert
            /\ UNCHANGED <<predVars, clicks>>
       ELSE /\ clicks > 0
            /\ clicks' = clicks - 1
            /\ isRequestingPrediction' = TRUE
            /\ predictions' = <<>>
            /\ predictionMessage' = ""
            /\ predictionStartTs' = Num(now)
            /\ predCalls' = Append(predCalls,
                 [pc |-> "post",
                  startTs |-> Num(now),
                  id |-> factoryMedicineId,
                  payload |-> [form |-> [f \in FormFields |-> Num(0)], status |-> 2,
                               factory |-> factoryName],
                  body |-> JsonStringify([form |-> [f \in FormFields |-> Num(0)],
                                          status |-> 2, factory |-> factoryName]),
                  okAt |-> 0, due |-> 0, gets |-> 0, getAt |-> 0])
            /\ predBy' = 0
            /\ UNCHANGED lastAlert
  /\ UNCHANGED <<probe, backend, view, now, idVars, scriptVars, collectionForm, collVars, trainVars>>

\* the response to the POST of call n: schedule the delayed fetch, or report
PredictPostResponse(n, r) ==
  /\ n \in 1 .. Len(predCalls)
  /\ predCalls[n].pc = "post"
  /\ IF r.outcome = "ok"
       THEN /\ predCalls' = [predCalls EXCEPT ![n].pc = "wait", ![n].okAt = now,
                                              ![n].due = PredictDueAt(now)]
            /\ UNCHANGED <<predictionMessage, isRequestingPrediction>>
       ELSE /\ predCalls' = [predCalls EXCEPT ![n].pc = "failed"]
            /\ predictionMessage' = SetState(predictionMessage, PredictPostError(r))
            /\ isRequestingPrediction' = SetState(isRequestingPrediction, FALSE)
  /\ UNCHANGED <<probe, backend, view, now, idVars, scriptVars, collectionForm, collVars, trainVars,
                 predictionStartTs, predictions, predBy, lastAlert, clicks>>

\* the timeout of call n runs: the callback up to its await
PredictTimerFire(n) ==
  /\ n \in 1 .. Len(predCalls)
  /\ predCalls[n].pc = "wait"
  /\ now >= predCalls[n].due
  /\ predCalls' = [predCalls EXCEPT ![n].pc = "get", ![n].gets = @ + 1,
                                         ![n].getAt = now]
  /\ UNCHANGED <<probe, backend, view, now, idVars, scriptVars, collectionForm, collVars, trainVars,
                 isRequestingPrediction, predictionStartTs, predictions,
                 predictionMessage, predBy, lastAlert, clicks>>

\* the callback from the answer to GET /predict to its end
PredictGetResponse(n, r) ==
  /\ n \in 1 .. Len(predCalls)
  /\ predCalls[n].pc = "get"
  /\ IF r.outcome = "ok"
       THEN /\ predictions' = SetState(predictions,
                 FilterPrediction(AsArray(r.body), predCalls[n].startTs))
            /\ predictionMessage' = SetState(predictionMessage, "Prediction fetched.")
            /\ predCalls' = [predCalls EXCEPT ![n].pc = "done"]
            /\ predBy' = SetState(predBy, n)
       ELSE /\ predictionMessage' = SetState(predictionMessage, PredictGetError(r))
            /\ predCalls' = [predCalls EXCEPT ![n].pc = "done"]
            /\ UNCHANGED <<predictions, predBy>>
  /\ isRequestingPrediction' = SetState(isRequestingPrediction, FALSE)
  /\ UNCHANGED <<probe, backend, view, now, idVars, scriptVars, collectionForm, collVars, trainVars,
                 predictionStartTs, lastAlert, clicks>>

NextPredict ==
  \/ Mount
  \/ Unmount
  \/ Advance
  \/ RequestPredictionMode
  \/ \E n \in 1 .. Len(predCalls), r \in PostResponses : PredictPostResponse(n, r)
  \/ \E n \in 1 .. Len(predCalls) : PredictTimerFire(n)
  \/ \E n \in 1 .. Len(predCalls), r \in backend.predict : PredictGetResponse(n, r)

InitPredict == \E stored \in StoredNames : InitState(stored, MaxPredicts, RichBackend)

SpecPredict == InitPredict /\ [][NextPredict]_vars

\* time passes, and the event loop runs a timeout that is due
FairPredict ==
  /\ WF_vars(Advance)
  /\ \A n \in 1 .. MaxPredicts : WF_vars(PredictTimerFire(n))

SpecPredictFair == SpecPredict /\ FairPredict

(***************************************************************************)
(* Init-script retrieval                                                   *)
(***************************************************************************)
ScriptResponses ==
  [outcome : {"ok"}, status : {"200"}, text : {"", "echo hi"}]
    \cup HttpFailures \cup Rejections

MutFetchFlagsFirst ==
  /\ Mounted
  /\ ~isFetchingScript
  /\ isFetchingScript' = TRUE
  /\ IF factoryMedicineId = ""
       THEN /\ lastAlert' = IdAlert
            /\ UNCHANGED <<scriptText, scriptCalls, lastDownload, clicks>>
       ELSE /\ clicks > 0
            /\ clicks' = clicks - 1
            /\ scriptText' = ""
            /\ scriptCalls' = scriptCalls \cup {[id |-> factoryMedicineId]}
            /\ UNCHANGED <<lastAlert, lastDownload>>
  /\ UNCHANGED <<probe, backend, view, now, idVars, collectionForm, collVars, trainVars, predVars>>

\* fetchShellScript up to its await.  The button is disabled while
\* isFetchingScript; the identity precondition is the handler's own.
FetchShellScript ==
  /\ Mounted
  /\ ~isFetchingScript
  /\ IF factoryMedicineId = ""
       THEN /\ lastAlert' = IdAlert
            /\ UNCHANGED <<scriptVars, clicks>>
       ELSE /\ clicks > 0
            /\ clicks' = clicks - 1
            /\ isFetchingScript' = TRUE
            /\ scriptText' = ""
            /\ scriptCalls' = scriptCalls \cup {[id |-> factoryMedicineId]}
            /\ UNCHANGED <<lastAlert, lastDownload>>
  /\ UNCHANGED <<probe, backend, view, now, idVars, collectionForm, collVars, trainVars, predVars>>

\* fetchShellScript from the answer to GET /shell to its end
ScriptResponse(c, r) ==
  /\ c \in scriptCalls
  /\ scriptCalls' = scriptCalls \ {c}
  /\ scriptText' = SetState(scriptText,
       IF r.outcome = "ok"
         THEN (IF r.text = "" THEN "# (empty script returned)" ELSE r.text)
         ELSE "# Error fetching script: "
                \o ErrMessage("Failed to fetch script (", r, "): "))
  /\ isFetchingScript' = SetState(isFetchingScript, FALSE)
  /\ UNCHANGED <<probe, backend, view, now, idVars, collectionForm, collVars, trainVars, predVars,
                 lastAlert, clicks, lastDownload>>

MutScriptName(id) == "script.sh"

\* the filename of downloadScript
DownloadName(id) == (IF id # "" THEN id ELSE "script") \o ".sh"

\* downloadScript: without effect when scriptText is empty
DownloadScript ==
  /\ Mounted
  /\ IF scriptText = ""
       THEN UNCHANGED lastDownload
       ELSE lastDownload' = [name |-> DownloadName(factoryMedicineId), text |-> scriptText]
  /\ UNCHANGED <<probe, backend, view, now, idVars, scriptText, isFetchingScript,
                 scriptCalls, collectionForm, collVars, trainVars, predVars,
                 lastAlert, clicks>>

(***************************************************************************)
(* The collection form and the training trigger                            *)
(***************************************************************************)
\* what the user may type into a field of the form
TypedValues == {DigitStr(50), TextStr}

\* handleCollectionChange
HandleCollectionChange(name, value) ==
  /\ Mounted
  /\ clicks > 0
  /\ clicks' = clicks - 1
  /\ collectionForm' = [collectionForm EXCEPT ![name] = ToNumber(value)]
  /\ UNCHANGED <<probe, backend, view, now, idVars, scriptVars, collVars, trainVars, predVars, lastAlert>>

\* handleCsvSelect: the file chosen, or none when the dialog is cancelled
HandleCsvSelect(file) ==
  /\ Mounted
  /\ csvFile # file
  /\ csvFile' = file
  /\ UNCHANGED <<probe, backend, view, now, idVars, scriptVars, collectionForm, collVars,
                 isTraining, trainMessage, trainCalls, predVars, lastAlert, clicks>>

NamesAlert == "Factory/medicine not set. Please set them on Home page."
CsvAlert == "Please upload a CSV file first."

TrainResponses ==
  [outcome : {"ok"}, status : {"200"}, text : {"", "{}"}] \cup HttpFailures \cup Rejections

\* startModelTraining up to its await.  The button is disabled while
\* isTraining; the preconditions are the handler's own.
StartModelTraining ==
  /\ Mounted
  /\ ~isTraining
  /\ IF factoryName = "" /\ factoryMedicineId = ""
       THEN /\ lastAlert' = NamesAlert
            /\ UNCHANGED <<isTraining, trainMessage, trainCalls, clicks>>
       ELSE IF csvFile = ""
       THEN /\ lastAlert' = CsvAlert
            /\ UNCHANGED <<isTraining, trainMessage, trainCalls, clicks>>
       ELSE /\ clicks > 0
            /\ clicks' = clicks - 1
            /\ isTraining' = TRUE
            /\ trainMessage' = ""
            /\ trainCalls' = trainCalls \cup {[id |-> factoryMedicineId]}
            /\ UNCHANGED lastAlert
  /\ UNCHANGED <<probe, backend, view, now, idVars, scriptVars, collectionForm, collVars, csvFile,
                 predVars>>

\* startModelTraining from the answer to POST /train to its end
TrainResponse(c, r) ==
  /\ c \in trainCalls
  /\ trainCalls' = trainCalls \ {c}
  /\ trainMessage' = SetState(trainMessage,
       IF r.outcome = "ok"
         THEN "Model training started successfully."
         ELSE "Error starting training: "
                \o ErrMessage("Training request failed: ", r, " "))
  /\ isTraining' = SetState(isTraining, FALSE)
  /\ UNCHANGED <<probe, backend, view, now, idVars, scriptVars, collectionForm, collVars, csvFile,
                 predVars, lastAlert, clicks>>

(***************************************************************************)
(* The whole page                                                          *)
(***************************************************************************)
\* bound of the model: the user intents of one behaviour of the whole page
MaxIntents == 2

Next ==
  \/ Mount
  \/ Unmount
  \/ Advance
  \/ FetchShellScript
  \/ \E c \in scriptCalls, r \in ScriptResponses : ScriptResponse(c, r)
  \/ DownloadScript
  \/ \E f \in FormFields, v \in TypedValues : HandleCollectionChange(f, v)
  \/ SubmitCollection
  \/ \E s \in 1 .. Len(subs), o \in Outcomes : SubmitResponse(s, o)
  \/ \E t \in timers : TimerTick(t)
  \/ \E c \in cycles, r \in backend.getdata : GetdataResponse(c, r)
  \/ \E c \in cycles, r \in backend.status : PicronResponse(c, r)
  \/ \E file \in {"", "data.csv"} : HandleCsvSelect(file)
  \/ StartModelTraining
  \/ \E c \in trainCalls, r \in TrainResponses : TrainResponse(c, r)
  \/ RequestPredictionMode
  \/ \E n \in 1 .. Len(predCalls), r \in PostResponses : PredictPostResponse(n, r)
  \/ \E n \in 1 .. Len(predCalls) : PredictTimerFire(n)
  \/ \E n \in 1 .. Len(predCalls), r \in backend.predict : PredictGetResponse(n, r)

Init == \E stored \in StoredNames : InitState(stored, MaxIntents, PlainBackend)

Spec == Init /\ [][Next]_vars

(***************************************************************************)
(* The two filter callbacks on their own                                   *)
(***************************************************************************)
\* records with one alias set to each kind of value, and records whose
\* first alias is empty, zero or null while a later one names an instant
FilterRecords ==
  {Stamped(v) : v \in StampValues}
    \cup {Rec(Undefined, v, Undefined, Undefined) : v \in StampValues}
    \cup {Rec(Undefined, Undefined, v, Undefined) : v \in StampValues}
    \cup {Rec(Undefined, Undefined, Undefined, v) : v \in StampValues}
    \cup {Rec(a, IsoStr(t), Undefined, Undefined) :
            a \in {EmptyStr, Num(0), Null, TextStr}, t \in Instants}

\* the instants at which a session can start
SessionStarts == {StartTime + i * ClockStep : i \in 0 .. MaxSteps}

\* the callback of singleIteration on one record: collectionStartTs is null
\* before the first submission
ApplyCollectedFilter(e, startTs) ==
  /\ probe' = [site |-> "collect", e |-> e, startTs |-> startTs,
               kept |-> KeepCollected(e, startTs)]
  /\ UNCHANGED <<backend, view, now, idVars, scriptVars, collectionForm, collVars,
                 trainVars, predVars, lastAlert, clicks>>

\* the callback of the delayed fetch on one record
ApplyPredictionFilter(e, startTs) ==
  /\ probe' = [site |-> "predict", e |-> e, startTs |-> startTs,
               kept |-> KeepPrediction(e, startTs)]
  /\ UNCHANGED <<backend, view, now, idVars, scriptVars, collectionForm, collVars,
                 trainVars, predVars, lastAlert, clicks>>

NextFilter ==
  \/ \E e \in FilterRecords, t \in SessionStarts : ApplyCollectedFilter(e, Num(t))
  \/ \E e \in FilterRecords : ApplyCollectedFilter(e, Null)
  \/ \E e \in FilterRecords, t \in SessionStarts : ApplyPredictionFilter(e, Num(t))

InitFilter == InitState([factoryName |-> "ACME", medicineName |-> "Tonic1"], 0, RichBackend)

SpecFilter == InitFilter /\ [][NextFilter]_vars

(***************************************************************************)
(* The status check on its own                                             *)
(***************************************************************************)
\* an answer to GET /picron: any outcome, with a JSON object or null as body
AnyStatusResponses == [outcome : Outcomes, pdata : StatusBodies]

\* the check of singleIteration on one answer
ApplyStatusCheck(r) ==
  /\ probe' = [site |-> "status", e |-> r, startTs |-> Null, kept |-> PollIsDone(r)]
  /\ UNCHANGED <<backend, view, now, idVars, scriptVars, collectionForm, collVars,
                 trainVars, predVars, lastAlert, clicks>>

NextStatus == \E r \in AnyStatusResponses : ApplyStatusCheck(r)

SpecStatus == InitFilter /\ [][NextStatus]_vars

(***************************************************************************)
(* Vocabulary of the properties                                            *)
(***************************************************************************)
AliasOrder == <<"timestamp", "time", "created_at", "createdAt">>

\* the timestamp a record carries: its first alias that is present
RECURSIVE CarriedFrom(_, _)
CarriedFrom(e, i) ==
  IF i > Len(AliasOrder) THEN Undefined
  ELSE IF ~Nullish(e[AliasOrder[i]]) THEN e[AliasOrder[i]]
  ELSE CarriedFrom(e, i + 1)
Carried(e) == CarriedFrom(e, 1)
HasStamp(e) == ~Nullish(Carried(e))
\* it reads as an ISO date string or as a number
Parseable(v) == v.k \in {"iso", "digits", "num"}
\* no timestamp, or one not before the instant t
FreshOrUnstamped(e, t) ==
  ~HasStamp(e) \/ (Parseable(Carried(e)) /\ Carried(e).v >= t)
IsPrefix(p, q) == Len(p) <= Len(q) /\ SubSeq(q, 1, Len(p)) = p
LastSub == Len(subs)
TimerActive(s) == \E t \in timers : t.id = s

(***************************************************************************)
(* Properties of the data-collection phase                                 *)
(***************************************************************************)
\* C2: every entry a poll cycle appended carries no timestamp or one that is
\* not before the startTimestamp its own submission recorded.
C2_EntriesNotBeforeSubmission ==
  \A i \in 1 .. Len(collectedEntries) :
    FreshOrUnstamped(collectedEntries[i], subs[entryBy[i].sub].startTs)

\* C5: once a status poll has answered 0, and until a submission succeeds
\* again, no step issues GET /getdata (a cycle starts) or GET /picron (a
\* cycle passes from its getdata await to its picron await).
C5_NoRequestAfterDone ==
  [][(doneSeen /\ doneSeen') => cycles' \subseteq cycles]_vars

\* C6: with the view mounted and no later submission, the timer of the
\* polling submission is cleared exactly if one of its own status polls
\* answered 0.
C6_ClearedIffOwnStatusZero ==
  (Mounted /\ LastSub > 0 /\ subs[LastSub].pc = "polling")
    => (~TimerActive(LastSub) <=> subs[LastSub].sawZero)

\* C7: after teardown no interval timer is active.
C7_NoTimerAfterTeardown == view = "torndown" => timers = {}

\* C8: every entry was appended by a cycle of the latest submission, the one
\* that last reset the sequence.
C8_EntriesOfLatestSubmission ==
  \A i \in 1 .. Len(collectedEntries) : entryBy[i].sub = LastSub

\* C9: a step other than a submission keeps the accumulated entries as a
\* prefix; when it changes them it appends what the filter of one cycle
\* awaiting getdata keeps of one response, in order; and the length is the
\* number of records that survived since the reset.
C9_AppendOnly ==
  [][/\ Len(subs') = Len(subs) =>
          /\ IsPrefix(collectedEntries, collectedEntries')
          /\ collectedEntries' # collectedEntries =>
               \E c \in cycles, r \in backend.getdata :
                 /\ c.pc = "getdata"
                 /\ collectedEntries' =
                      collectedEntries \o
                        FilterCollected(AsArray(r.body), subs[c.sub].closureStartTs)
     /\ Len(collectedEntries') = keptCount']_vars

\* two cycles of one submission have each appended an entry
C9_Witness ==
  /\ Len(collectedEntries) = 2
  /\ entryBy[1].sub = entryBy[2].sub
  /\ entryBy[1].n # entryBy[2].n
  /\ collectedEntries[1] # collectedEntries[2]


(***************************************************************************)
(* Properties of the prediction phase                                      *)
(***************************************************************************)
\* C3: every record a delayed fetch placed in predictions carries no
\* timestamp or one that is not before the startTs of the call that
\* scheduled the fetch.
C3_PredictionsNotBeforeCall ==
  predBy # 0 =>
    \A i \in 1 .. Len(predictions) :
      FreshOrUnstamped(predictions[i], predCalls[predBy].startTs.v)

FifteenSeconds == 15000

\* C10: a call issues GET /predict at most once, never before its POST has
\* succeeded and 15 seconds have passed since, and never when the POST
\* failed; nothing takes a scheduled fetch back, whatever happens to the
\* view; and a scheduled fetch is issued in the end.
C10_OneDelayedFetch ==
  /\ [](\A n \in 1 .. Len(predCalls) :
          LET c == predCalls[n]
          IN /\ c.gets <= 1
             /\ c.pc \in {"post", "failed", "wait"} => c.gets = 0
             /\ c.pc \in {"get", "done"} =>
                  c.gets = 1 /\ c.getAt >= c.okAt + FifteenSeconds)
  /\ [][\A n \in 1 .. Len(predCalls) :
          predCalls[n].pc = "wait" => predCalls'[n].pc \in {"wait", "get"}]_vars
  /\ \A n \in 1 .. MaxPredicts :
       (Len(predCalls) >= n /\ predCalls[n].pc = "wait")
         ~> (Len(predCalls) >= n /\ predCalls[n].pc = "get")

\* the fetch of a call is issued after the view was torn down, and another
\* call has failed its POST
C10_Witness ==
  /\ view = "torndown"
  /\ \E n \in 1 .. Len(predCalls) :
       predCalls[n].pc = "get" /\ predCalls[n].getAt >= predCalls[n].okAt + FifteenSeconds
  /\ \E n \in 1 .. Len(predCalls) : predCalls[n].pc = "failed"

(***************************************************************************)
(* Properties of the filter callbacks and of the preconditions             *)
(***************************************************************************)
\* C4: a record without timestamp, or with one that reads neither as an ISO
\* date string nor as a number, is retained by both callbacks whatever the
\* session start.
C4_KeepOnAmbiguity ==
  (probe.site # "none" /\ (~HasStamp(probe.e) \/ ~Parseable(Carried(probe.e))))
    => probe.kept

NameMissing == factoryName = "" \/ medicineName = ""
NoRequestInFlight ==
  /\ scriptCalls = {}
  /\ trainCalls = {}
  /\ \A s \in 1 .. Len(subs) : subs[s].pc # "post"
  /\ cycles = {}
  /\ \A n \in 1 .. Len(predCalls) : predCalls[n].pc \notin {"post", "get"}

\* C1: while a name is empty the identifier is empty and no operation has a
\* request under way (the names never change after mount, so a request
\* under way was issued in such a state).
C1_NoIdentityNoRequest ==
  NameMissing => (factoryMedicineId = "" /\ NoRequestInFlight)

(***************************************************************************)
(* Sessions and failed attempts                                            *)
(***************************************************************************)
LastCall == Len(predCalls)

\* C11: a fetched result in predictions was assigned by the delayed fetch of
\* the latest requestPredictionMode call, never by the fetch an earlier call
\* scheduled.
C11_PredictionsOfLatestCall == predBy # 0 => predBy = LastCall

\* C12: a failed submission has started no cycle and owns no timer, the
\* step in which its POST fails raises the alert and touches neither cycles
\* nor timers, and with no POST under way the mounted view shows
\* isSubmittingCollection false.
C12_FailedSubmitStaysIdle ==
  /\ [](\A s \in 1 .. Len(subs) :
          subs[s].pc = "failed" =>
            /\ subs[s].started = 0
            /\ ~TimerActive(s)
            /\ \A c \in cycles : c.sub # s)
  /\ []((Mounted /\ \A s \in 1 .. Len(subs) : subs[s].pc # "post")
          => ~isSubmittingCollection)
  /\ [][\A s \in 1 .. Len(subs) :
          (subs[s].pc = "post" /\ subs'[s].pc = "failed") =>
            /\ lastAlert' = "Error submitting data collection. See console for details."
            /\ cycles' = cycles /\ timers' = timers /\ pollingRef' = pollingRef
            /\ (Mounted => ~isSubmittingCollection')]_vars

\* C13: the end of a failed getdata fetch leaves the timers, pollingRef and
\* collectedEntries as they are and issues the status fetch of its cycle;
\* the end of a failed status fetch leaves the timers, pollingRef and
\* collectedEntries as they are; and after a failed fetch the timer of the
\* submission, as long as it is active, starts the next cycle that is due.
C13_PollFailureSwallowed ==
  /\ [][/\ \A c \in cycles, r \in backend.getdata :
             (r.outcome # "ok" /\ GetdataResponse(c, r)) =>
               /\ timers' = timers /\ pollingRef' = pollingRef
               /\ collectedEntries' = collectedEntries
               /\ [c EXCEPT !.pc = "picron"] \in cycles'
        /\ \A c \in cycles, r \in StatusResponses :
             (r.outcome # "ok" /\ PicronResponse(c, r)) =>
               /\ timers' = timers /\ pollingRef' = pollingRef
               /\ collectedEntries' = collectedEntries]_vars
  /\ \A s \in 1 .. MaxSubmits, k \in 1 .. MaxSteps + 1 :
       (/\ Len(subs) >= s
        /\ subs[s].failedAt = k /\ subs[s].started = k
        /\ \E t \in timers : t.id = s /\ t.due <= MaxNow)
         ~> (Len(subs) >= s /\ (subs[s].started > k \/ ~TimerActive(s)))

\* a fetch of the first cycle has failed, the timer has started the second
\* cycle since and is still active
C13_Witness ==
  /\ Mounted
  /\ \E s \in 1 .. Len(subs) :
       /\ subs[s].failedAt = 1 /\ subs[s].started = 2
       /\ TimerActive(s)
       /\ \E c \in cycles : c.sub = s /\ c.n = 2

\* C14: once the POST of the latest submission has failed, collectedEntries
\* still holds the entries it held when that submission was made (entries
\* are only ever appended, so it holds at least as many).
C14_FailedSubmitKeepsEntries ==
  (LastSub > 0 /\ subs[LastSub].pc = "failed")
    => Len(collectedEntries) >= subs[LastSub].lenBefore

\* the phase of submission s is Done: its timer is cleared and none of its
\* cycles is pending
CollectionDone(s) == ~TimerActive(s) /\ \A c \in cycles : c.sub # s

\* a status poll of submission s is still to come: one of its cycles is
\* pending, or its timer is due within the clock of the model
PollToCome(s) ==
  \/ \E c \in cycles : c.sub = s
  \/ \E t \in timers : t.id = s /\ t.due <= MaxNow

\* C15: once every status poll is answered ok with status 0, a polling
\* submission with a status poll still to come reaches Done, unless the
\* view is torn down or a new submission is made.
C15_EventuallyDone ==
  \A s \in 1 .. MaxFairSubmits :
    (/\ Len(subs) >= s /\ subs[s].pc = "polling"
     /\ backend.status = SettledStatus
     /\ PollToCome(s))
      ~> \/ Len(subs) >= s /\ CollectionDone(s)
         \/ ~Mounted
         \/ Len(subs) > s

\* the first status poll was not answered with 0, the timer has started the
\* second cycle, whose status poll was, and the phase is Done
C15_Witness ==
  /\ Mounted
  /\ backend.status = SettledStatus
  /\ Len(subs) = 1
  /\ subs[1].started = 2 /\ subs[1].sawZero
  /\ CollectionDone(1)
  /\ pollingRef = 0

\* the first submission polls, the second one has failed and left the timer
\* of the first alone
C12_Witness ==
  /\ Mounted
  /\ Len(subs) = 2
  /\ subs[1].pc = "polling" /\ subs[2].pc = "failed"
  /\ TimerActive(1)
  /\ ~isSubmittingCollection
  /\ lastAlert = "Error submitting data collection. See console for details."

(***************************************************************************)
(* Identity and request bodies                                             *)
(***************************************************************************)
\* C16: after mount, two non-empty names give the identifier
\* factoryName_medicineName (ACME and Tonic1 give ACME_Tonic1), and running
\* the identity effect again leaves the identifier as it is.
C16_IdentityDerived ==
  view # "initial" =>
    /\ (factoryName # "" /\ medicineName # "")
         => factoryMedicineId = factoryName \o "_" \o medicineName
    /\ (factoryName = "ACME" /\ medicineName = "Tonic1")
         => factoryMedicineId = "ACME_Tonic1"
    /\ IdentityEffect(factoryName, medicineName, factoryMedicineId) = factoryMedicineId

C16_Witness ==
  /\ Mounted
  /\ factoryName = "ACME" /\ medicineName = "Tonic1"
  /\ factoryMedicineId = "ACME_Tonic1"
  /\ scriptCalls # {}

\* C17: the body of a submitCollection POST carries status 1, the seven
\* values collectionForm holds at the call and the factory name; the body of
\* a requestPredictionMode POST carries status 2, seven zeros and the
\* factory name.
C17_PicronPostBodies ==
  /\ [](\A s \in 1 .. Len(subs) : subs[s].body.status = 1)
  /\ [](\A n \in 1 .. Len(predCalls) :
          /\ predCalls[n].body.status = 2
          /\ \A f \in FormFields : predCalls[n].body.form[f] = Num(0))
  /\ [][Len(subs') > Len(subs) =>
          LET b == subs'[Len(subs')].body
          IN b.form = collectionForm /\ b.factory = factoryName]_vars
  /\ [][Len(predCalls') > Len(predCalls) =>
          predCalls'[Len(predCalls')].body.factory = factoryName]_vars

(***************************************************************************)
(* Init-script retrieval and training                                      *)
(***************************************************************************)
\* the text s contains the text sub
RECURSIVE ContainsFrom(_, _, _)
ContainsFrom(s, sub, i) ==
  IF i + Len(sub) - 1 > Len(s) THEN FALSE
  ELSE IF SubSeq(s, i, i + Len(sub) - 1) = sub THEN TRUE
  ELSE ContainsFrom(s, sub, i + 1)
Contains(s, sub) == ContainsFrom(s, sub, 1)

\* C18: in the mounted view isFetchingScript is true exactly while a
\* fetchShellScript call awaits its answer, and the end of a call, whether
\* by success, HTTP error or transport exception, leaves it false.
C18_FetchingFlagCleared ==
  /\ [](Mounted => (isFetchingScript <=> scriptCalls # {}))
  /\ [][\A c \in scriptCalls, r \in ScriptResponses :
          (Mounted /\ ScriptResponse(c, r)) => ~isFetchingScript']_vars

\* a call has ended by a transport exception
C18_Witness ==
  /\ Mounted
  /\ scriptCalls = {} /\ ~isFetchingScript
  /\ scriptText = "# Error fetching script: Failed to fetch"

\* C19: the end of a fetchShellScript call sets scriptText to the body of
\* an ok answer, to the empty-script placeholder when that body is empty,
\* and to an error text containing the status and the body of a non-success
\* answer.
C19_ScriptTextByOutcome ==
  [][\A c \in scriptCalls, r \in ScriptResponses :
       (Mounted /\ ScriptResponse(c, r)) =>
         /\ (r.outcome = "ok" /\ r.text # "") => scriptText' = r.text
         /\ (r.outcome = "ok" /\ r.text = "") => scriptText' = "# (empty script returned)"
         /\ r.outcome = "http" =>
              /\ Contains(scriptText', "Error")
              /\ Contains(scriptText', r.status)
              /\ Contains(scriptText', r.text)]_vars

\* a call has ended with status 500 and body "bad csv"
C19_Witness ==
  /\ Mounted
  /\ scriptCalls = {}
  /\ scriptText = "# Error fetching script: Failed to fetch script (500): bad csv"

\* C20: a non-2xx answer to the training request sets trainMessage to an
\* error text containing the status and the body (500 and bad csv), a 2xx
\* answer sets the fixed success message whatever its body.
C20_TrainMessageByOutcome ==
  [][\A c \in trainCalls, r \in TrainResponses :
       (Mounted /\ TrainResponse(c, r)) =>
         /\ r.outcome = "http" =>
              /\ Contains(trainMessage', "Error")
              /\ Contains(trainMessage', r.status)
              /\ Contains(trainMessage', r.text)
         /\ (r.outcome = "http" /\ r.status = "500" /\ r.text = "bad csv") =>
              Contains(trainMessage', "500") /\ Contains(trainMessage', "bad csv")
         /\ r.outcome = "ok" => trainMessage' = "Model training started successfully."]_vars

\* a training request was answered with status 500 and body "bad csv"
C20_Witness ==
  /\ Mounted
  /\ trainCalls = {} /\ ~isTraining
  /\ Contains(trainMessage, "500") /\ Contains(trainMessage, "bad csv")

(***************************************************************************)
(* In-flight flags of training and prediction                              *)
(***************************************************************************)
\* C21: in the mounted view isTraining is true exactly while a
\* startModelTraining call awaits its answer, and the end of a call, whether
\* by success, non-2xx response or transport exception, leaves it false.
C21_TrainingFlagCleared ==
  /\ [](Mounted => (isTraining <=> trainCalls # {}))
  /\ [][\A c \in trainCalls, r \in TrainResponses :
          (Mounted /\ TrainResponse(c, r)) => ~isTraining']_vars

\* a training call has ended by a transport exception
C21_Witness ==
  /\ Mounted
  /\ trainCalls = {} /\ ~isTraining
  /\ trainMessage = "Error starting training: Failed to fetch"

\* C22: the failure of a predict-mode POST, and the failure of a delayed
\* GET /predict, set predictionMessage to an error message and
\* isRequestingPrediction to false.
C22_PredictionFailureReported ==
  /\ [][\A n \in 1 .. Len(predCalls), r \in PostResponses :
          (Mounted /\ r.outcome # "ok" /\ PredictPostResponse(n, r)) =>
            /\ Contains(predictionMessage', "Error requesting prediction mode")
            /\ ~isRequestingPrediction']_vars
  /\ [][\A n \in 1 .. Len(predCalls), r \in backend.predict :
          (Mounted /\ r.outcome # "ok" /\ PredictGetResponse(n, r)) =>
            /\ Contains(predictionMessage', "Error fetching prediction")
            /\ ~isRequestingPrediction']_vars

\* one call has failed its POST, the delayed fetch of another has failed
C22_Witness ==
  /\ Mounted
  /\ ~isRequestingPrediction
  /\ Len(predCalls) = 2
  /\ predCalls[1].pc = "failed" /\ predCalls[2].pc = "done"
  /\ predictionMessage = "Error fetching prediction: Failed to fetch prediction: 500 bad csv"

(***************************************************************************)
(* The downloaded artifact                                                 *)
(***************************************************************************)
\* C23: a non-empty scriptText comes with a non-empty factoryMedicineId, an
\* artifact holds a non-empty script text and is named
\* {factoryMedicineId}.sh, and downloadScript starts no request.
C23_DownloadNamedById ==
  /\ [](scriptText # "" => factoryMedicineId # "")
  /\ [](lastDownload.name # "" =>
          /\ lastDownload.text # ""
          /\ factoryMedicineId # ""
          /\ lastDownload.name = factoryMedicineId \o ".sh")
  /\ [][lastDownload' # lastDownload =>
          /\ scriptText # "" /\ lastDownload'.text = scriptText
          /\ UNCHANGED <<scriptCalls, trainCalls, subs, cycles, predCalls>>]_vars

\* the script fetched for ACME_Tonic1 was downloaded
C23_Witness ==
  /\ lastDownload = [name |-> "ACME_Tonic1.sh", text |-> "echo hi"]
  /\ scriptText = "echo hi"

(***************************************************************************)
(* Order within the polling phase                                          *)
(***************************************************************************)
\* C24: the step in which a submit POST succeeds starts the first cycle of
\* the submission and installs its timer, due one interval later; every
\* later cycle is started by a tick of that timer, which is due.
C24_ImmediateCycleThenTicks ==
  /\ [][\A s \in 1 .. Len(subs) :
          (subs[s].pc = "post" /\ subs'[s].pc = "polling") =>
            /\ [sub |-> s, n |-> 1, pc |-> "getdata"] \in cycles'
            /\ ~TimerActive(s)
            /\ [id |-> s, due |-> now + 15000] \in timers']_vars
  /\ [][\A c \in cycles' \ cycles :
          (\A d \in cycles : d.sub # c.sub \/ d.n # c.n) =>
            \/ c.n = 1 /\ subs[c.sub].pc = "post" /\ subs'[c.sub].pc = "polling"
            \/ /\ c.n > 1
               /\ \E t \in timers :
                    t.id = c.sub /\ now >= t.due /\ t \notin timers']_vars

\* the first cycle of a submission is still under way when the tick at the
\* end of the first interval starts the second
C24_Witness ==
  \E s \in 1 .. Len(subs) :
    /\ subs[s].started = 2
    /\ \E c \in cycles : c.sub = s /\ c.n = 1
    /\ \E c \in cycles : c.sub = s /\ c.n = 2
    /\ [id |-> s, due |-> subs[s].startTs + 2 * 15000] \in timers

\* C25: a cycle starts by awaiting GET /getdata, and it awaits GET /picron
\* only from the step in which its own getdata fetch ended, by an answer or
\* by a failure.
C25_GetdataBeforeStatus ==
  [][\A c \in cycles' \ cycles :
       IF \E d \in cycles : d.sub = c.sub /\ d.n = c.n
         THEN c.pc = "picron" /\ [c EXCEPT !.pc = "getdata"] \in cycles
         ELSE c.pc = "getdata"]_vars

\* the getdata fetch of the second cycle has failed and its status fetch is
\* under way
C25_Witness ==
  \E c \in cycles :
    c.pc = "picron" /\ c.n = 2 /\ subs[c.sub].failedAt = 2

(***************************************************************************)
(* The status check                                                        *)
(***************************************************************************)
\* the value the check is about: status, or status_code when status is
\* absent or null
StatusOrCode(pdata) ==
  IF pdata.status.k \in {"undefined", "null"} THEN pdata.status_code ELSE pdata.status

\* the value is present and the number JavaScript reads it as is 0
PresentZero(v) == v.k \notin {"undefined", "null"} /\ ToNumber(v) = Num(0)

\* C26: the status check ends polling exactly for an ok answer whose
\* status, or status_code when status is absent or null, is present and
\* numerically 0; not for a body with neither field, and not for a non-zero
\* status beside status_code 0.
C26_DoneExactlyOnZero ==
  probe.site = "status" =>
    LET r == probe.e
    IN /\ probe.kept <=>
            (r.outcome = "ok" /\ r.pdata # Null /\ PresentZero(StatusOrCode(r.pdata)))
       /\ (r.pdata # Null /\ r.pdata.status = Undefined /\ r.pdata.status_code = Undefined)
            => ~probe.kept
       /\ (r.pdata # Null /\ r.pdata.status = Num(1) /\ r.pdata.status_code = Num(0))
            => ~probe.kept

\* an ok answer with status null and status_code "0" has ended polling
C26_Witness ==
  /\ probe.site = "status"
  /\ probe.kept
  /\ probe.e.pdata = [status |-> Null, status_code |-> DigitStr(0)]

(***************************************************************************)
(* Ownership of the poll timer                                             *)
(***************************************************************************)
\* C27: at most one interval timer exists, and it is the one pollingRef
\* refers to.
C27_OneTimerAtPollingRef ==
  /\ Cardinality(timers) <= 1
  /\ \A t \in timers : t.id = pollingRef

\* the second submission polls: its timer has replaced the one of the first
C27_Witness ==
  /\ Len(subs) = 2
  /\ subs[1].pc = "polling" /\ subs[2].pc = "polling"
  /\ pollingRef = 2
  /\ TimerActive(2) /\ ~TimerActive(1)
  /\ ~subs[1].sawZero

\* C28: the timer of a submission goes away only in the step in which a
\* cycle of that submission receives status 0, in the step in which a later
\* submission starts polling, or at teardown.
C28_TimerCancelledByOwnSession ==
  [][\A s \in 1 .. Len(subs) :
       (TimerActive(s) /\ ~\E t \in timers' : t.id = s) =>
         \/ view' = "torndown" /\ view = "mounted"
         \/ \E s2 \in s + 1 .. Len(subs) :
              subs[s2].pc = "post" /\ subs'[s2].pc = "polling"
         \/ \E c \in cycles \ cycles' :
              c.sub = s /\ c.pc = "picron" /\ subs'[s].sawZero]_vars

(***************************************************************************)
(* The prediction flag, and rejected calls                                 *)
(***************************************************************************)
\* the work of call n is outstanding: its POST is under way, or its delayed
\* fetch is scheduled or under way
Outstanding(n) == predCalls[n].pc \in {"post", "wait", "get"}

\* C29: in the mounted view isRequestingPrediction is true in every state in
\* which the work of some requestPredictionMode call is outstanding.
C29_FlagWhileOutstanding ==
  Mounted => ((\E n \in 1 .. Len(predCalls) : Outstanding(n)) => isRequestingPrediction)

\* the orchestrator variables other than the alert shown
OrchestratorState ==
  <<view, now, idVars, scriptVars, collectionForm, collVars, trainVars, predVars>>

\* C30: a call rejected by its precondition starts no request and changes
\* no orchestrator variable: fetchShellScript, submitCollection and
\* requestPredictionMode with an empty identifier, startModelTraining with
\* neither name nor identifier or with no file selected, downloadScript with
\* an empty scriptText.
C30_RejectedCallChangesNothing ==
  [][/\ (factoryMedicineId = ""
           /\ (FetchShellScript \/ SubmitCollection \/ RequestPredictionMode))
          => (lastAlert' = IdAlert /\ UNCHANGED OrchestratorState)
     /\ (((factoryName = "" /\ factoryMedicineId = "") \/ csvFile = "")
           /\ StartModelTraining)
          => (lastAlert' \in {NamesAlert, CsvAlert} /\ UNCHANGED OrchestratorState)
     /\ (scriptText = "" /\ DownloadScript) => UNCHANGED OrchestratorState]_vars

\* startModelTraining was rejected for want of a file while a script fetch
\* was under way
C30_Witness ==
  /\ Mounted
  /\ lastAlert = CsvAlert
  /\ csvFile = ""
  /\ isFetchingScript /\ scriptCalls # {}
  /\ trainCalls = {} /\ ~isTraining

====
